---- MODULE Spec2Model ----
(***************************************************************************)
(* build.py: derives resized/cropped image variants from a tree of source  *)
(* images into a destination tree, incrementally.  The model follows the   *)
(* script process by process: one run of the script is one pass of the     *)
(* main thread through prepare_dest, copy_file, the five derivers and the  *)
(* final pruning/report, with the worker pool of BaseImageDeriver.run      *)
(* running beside it.  The file system, the source tree and the script's   *)
(* class constants (VERSION) are the environment: they persist from one    *)
(* run to the next and may be changed between runs.                        *)
(***************************************************************************)
EXTENDS Integers, Sequences, FiniteSets, TLC

(* ------------------------------ bounds --------------------------------- *)
\* runs of the script in one behaviour
MaxRuns == 2
\* disturbances in one behaviour: changes the environment makes between runs
\* (sources, focal points, VERSION, metadata) and failures of the external
\* engine (a probe or an invocation exiting non-zero)
MaxEvents == 1
\* the larger of the two --cores values tried (the other is 1)
MaxCores == 2

(* --------------------------- program constants -------------------------- *)
\* __main__'s list of deriver classes, in the order they run
Deriverclasses == <<"Buddhism", "Function", "Imagery", "Tag", "Banner">>
Groups == {Deriverclasses[i] : i \in 1..Len(Deriverclasses)}

\* DST of each deriver class
DST(g) ==
  CASE g = "Buddhism" -> "buddhism"
    [] g = "Function" -> "function"
    [] g = "Imagery"  -> "imagery"
    [] g = "Tag"      -> "tags"
    [] g = "Banner"   -> "banners"

\* VERSION of each deriver class, as written in the source
VERSION0(g) == IF g = "Banner" THEN 2 ELSE 1

\* the derivers whose __init__ loads image_metadata.json into self.metadata
HasImageData(g) == g \in {"Tag", "Banner"}

\* BannerImageDeriver.TARGET_WIDTHS / DENSITY (as a fraction) / MIN_DPP_FOR_2X
TARGET_WIDTHS == <<400, 594, 881, 1308, 1940, 2880, 4274, 6343>>
DENSITY_NUM == 3
DENSITY_DEN == 2
MIN_DPP_FOR_2X_NUM == 7
MIN_DPP_FOR_2X_DEN == 4

(* ------------------------------ arithmetic ------------------------------ *)
\* Python's round() of the exact quotient n/d (d > 0): nearest integer, ties
\* to the even neighbour.
Round(n, d) ==
  LET q == n \div d
      r == n % d
  IN  IF 2 * r < d THEN q
      ELSE IF 2 * r > d THEN q + 1
      ELSE IF q % 2 = 0 THEN q ELSE q + 1

\* round() of a quotient the script computes with two floating-point
\* divisions (x * actual_ratio / target_ratio): the rounding errors matter
\* only when the exact quotient n/d lies halfway between two integers; the
\* float then falls on either side, tie (0 or 1) saying on which.
Ties == {0, 1}
RoundFloat(n, d, tie) ==
  IF 2 * (n % d) = d THEN n \div d + tie ELSE Round(n, d)

(* --------------------------- the source tree ---------------------------- *)
\* A source file, relative to its group's source root: dir is "" for a file
\* directly in the root, else the subfolder.
File(d, s, e) == [dir |-> d, stem |-> s, ext |-> e]
\* pathlib's file.name, the key of image_metadata.json
FileName(f) == <<f.stem, f.ext>>

\* The files the environment may put into each group's source root.
SourceUniverse(g) ==
  CASE g = "Buddhism" -> {File("", "a", "jpg"), File("", "a", "png")}
    [] g = "Function" -> {}
    [] g = "Imagery"  -> {File("", "i", "png"), File("", "j", "png")}
    [] g = "Tag"      -> {File("x", "t", "png"), File("y", "t", "png")}
    [] g = "Banner"   -> {File("courses", "h", "jpg")}

\* What `identify` reports for each of them: <<width, height>>.
Dims(g, f) ==
  CASE g = "Buddhism" /\ f.ext = "png" -> <<1200, 1600>>
    [] g = "Tag"                         -> <<1000, 800>>
    [] g = "Banner"                      -> <<900, 600>>
    [] OTHER                             -> <<1600, 1200>>

\* The focal points ('center', in percent) image_metadata.json may hold.
Centers == {<<50, 50>>, <<0, 100>>}
ImageNames(g) == {FileName(f) : f \in SourceUniverse(g)}

(* --------------------------- Geometry Engine ---------------------------- *)
\* (a variant of magick_resize with the two center coordinates exchanged)
magick_resize_swapped(width, height, target_width, target_height, center_x, center_y, tie) ==
  LET \* target_ratio > actual_ratio  <=>  tw/th > w/h  <=>  tw*h > w*th
      wider  == target_width * height > width * target_height
      taller == target_width * height < width * target_height
      \* height * actual_ratio / target_ratio = width * th / tw
      crop_height == IF wider THEN RoundFloat(width * target_height, target_width, tie)
                              ELSE height
      crop_y == IF wider THEN Round((height - crop_height) * center_x, 100) ELSE 0
      \* width * target_ratio / actual_ratio = height * tw / th
      crop_width == IF taller THEN RoundFloat(height * target_width, target_height, tie)
                              ELSE width
      crop_x == IF taller THEN Round((width - crop_width) * center_y, 100) ELSE 0
  IN  [crop   |-> IF crop_height # height \/ crop_width # width
                    THEN <<crop_width, crop_height, crop_x, crop_y>> ELSE <<>>,
       resize |-> IF target_height # crop_height \/ target_width # crop_width
                    THEN <<target_width, target_height>> ELSE <<>>]

\* (a variant of magick_resize that places the crop by the full dimension)
magick_resize_fullOffset(width, height, target_width, target_height, center_x, center_y, tie) ==
  LET \* target_ratio > actual_ratio  <=>  tw/th > w/h  <=>  tw*h > w*th
      wider  == target_width * height > width * target_height
      taller == target_width * height < width * target_height
      \* height * actual_ratio / target_ratio = width * th / tw
      crop_height == IF wider THEN RoundFloat(width * target_height, target_width, tie)
                              ELSE height
      crop_y == IF wider THEN Round(height * center_y, 100) ELSE 0
      \* width * target_ratio / actual_ratio = height * tw / th
      crop_width == IF taller THEN RoundFloat(height * target_width, target_height, tie)
                              ELSE width
      crop_x == IF taller THEN Round(width * center_x, 100) ELSE 0
  IN  [crop   |-> IF crop_height # height \/ crop_width # width
                    THEN <<crop_width, crop_height, crop_x, crop_y>> ELSE <<>>,
       resize |-> IF target_height # crop_height \/ target_width # crop_width
                    THEN <<target_width, target_height>> ELSE <<>>]

\* magick_resize: the -crop / -resize parts of the command, as a record.
\* crop = <<>> when no -crop is emitted, resize = <<>> when no -resize is.
\* tie: see RoundFloat.
magick_resize(width, height, target_width, target_height, center_x, center_y, tie) ==
  LET \* target_ratio > actual_ratio  <=>  tw/th > w/h  <=>  tw*h > w*th
      wider  == target_width * height > width * target_height
      taller == target_width * height < width * target_height
      \* height * actual_ratio / target_ratio = width * th / tw
      crop_height == IF wider THEN RoundFloat(width * target_height, target_width, tie)
                              ELSE height
      crop_y == IF wider THEN Round((height - crop_height) * center_y, 100) ELSE 0
      \* width * target_ratio / actual_ratio = height * tw / th
      crop_width == IF taller THEN RoundFloat(height * target_width, target_height, tie)
                              ELSE width
      crop_x == IF taller THEN Round((width - crop_width) * center_x, 100) ELSE 0
  IN  [crop   |-> IF crop_height # height \/ crop_width # width
                    THEN <<crop_width, crop_height, crop_x, crop_y>> ELSE <<>>,
       resize |-> IF target_height # crop_height \/ target_width # crop_width
                    THEN <<target_width, target_height>> ELSE <<>>]

\* BannerImageDeriver.getHeightForType (0 stands for the ValueError)
getHeightForType(subfolder) ==
  CASE subfolder = "courses"        -> 680
    [] subfolder = "footers"        -> 650
    [] subfolder = "headers"        -> 240
    [] subfolder = "navbar_headers" -> 200
    [] subfolder = "huge_footers"   -> 900
    [] OTHER                        -> 0

(* ---------------------------- Variant Planner --------------------------- *)
\* An output path: a file name inside the group's destination directory.
OutPath(g, stem, sfx) == [dst |-> DST(g), stem |-> stem, sfx |-> sfx]
ImageVariant(command, outpath) == [command |-> command, outpath |-> outpath]
Resize(w, h) == [crop |-> <<>>, resize |-> <<w, h>>]

\* ImageryCourseImageDeriver.getVariantsForImage
ImageryVariants(g, f) ==
  << ImageVariant(Resize(1066, 1280), OutPath(g, f.stem, ".webp")),
     ImageVariant(Resize(533, 0),     OutPath(g, f.stem, "-1x.webp")) >>

\* BuddhismCourseImageDeriver.getVariantsForImage (FunctionCourseImageDeriver
\* inherits it)
BuddhismVariants(g, f, width, height) ==
  IF height > width /\ height >= 1536
    THEN << ImageVariant(Resize(1920, 1920), OutPath(g, f.stem, ".webp")),
            ImageVariant(Resize(1280, 1280), OutPath(g, f.stem, "-2x.webp")),
            ImageVariant(Resize(640, 640),   OutPath(g, f.stem, "-1x.webp")) >>
    ELSE << ImageVariant(Resize(1280, 1280), OutPath(g, f.stem, ".webp")),
            ImageVariant(Resize(640, 640),   OutPath(g, f.stem, "-1x.webp")) >>

\* The in-place update TagIllustrationImageDeriver.getVariantsForImage makes
\* to self.metadata['image_data'][file.name]['center'].
TagCrop(center, width, height) ==
  << Round((width - 448) * center[1], 100), Round((height - 250) * center[2], 100) >>

\* TagIllustrationImageDeriver.getVariantsForImage, given the center as
\* self.metadata holds it at the call; crop is the updated center.
TagVariants(g, f, width, height, center) ==
  LET crop == TagCrop(center, width, height)
  IN  << ImageVariant(Resize(1840, 1250), OutPath(g, f.stem, ".webp")),
         ImageVariant(Resize(920, 625),   OutPath(g, f.stem, "-1x.webp")),
         ImageVariant([crop |-> <<448, 250, crop[1], crop[2]>>, resize |-> <<>>],
                      OutPath(g, f.stem, "-preview.webp")) >>

\* The width-ladder suffix of a banner output, e.g. "-400-2x.webp"
BannerSfx(target_width, density) ==
  "-" \o ToString(target_width) \o "-" \o density \o ".webp"

\* (a variant of BannerLadder that also stops at a breakpoint the source is
\* exactly wide enough for)
RECURSIVE BannerLadder_stoppingEarly(_, _, _, _, _, _, _, _)
BannerLadder_stoppingEarly(g, f, width, height, center, tie, i, ret) ==
  IF i > Len(TARGET_WIDTHS) THEN ret
  ELSE
    LET target_width  == TARGET_WIDTHS[i]
        target_height == getHeightForType(f.dir)
        big0 == Round(DENSITY_NUM * target_width, DENSITY_DEN)
        big1 == Round(DENSITY_NUM * target_height, DENSITY_DEN)
        big0x2 == Round(2 * DENSITY_NUM * target_width, DENSITY_DEN)
        big1x2 == Round(2 * DENSITY_NUM * target_height, DENSITY_DEN)
    IN  IF target_width * MIN_DPP_FOR_2X_NUM >= width * MIN_DPP_FOR_2X_DEN
          THEN Append(ret, ImageVariant(
                 magick_resize(width, height, big0, big1, center[1], center[2], tie),
                 OutPath(g, f.stem, BannerSfx(target_width, "1x"))))
          ELSE BannerLadder_stoppingEarly(g, f, width, height, center, tie, i + 1,
                 ret \o << ImageVariant(
                             magick_resize(width, height, big0x2, big1x2, center[1], center[2], tie),
                             OutPath(g, f.stem, BannerSfx(target_width, "2x"))),
                           ImageVariant(Resize(big0, big1),
                             OutPath(g, f.stem, BannerSfx(target_width, "1x"))) >>)

\* BannerImageDeriver.getVariantsForImage: the loop over TARGET_WIDTHS from
\* index i on, ret being the list built so far.
RECURSIVE BannerLadder(_, _, _, _, _, _, _, _)
BannerLadder(g, f, width, height, center, tie, i, ret) ==
  IF i > Len(TARGET_WIDTHS) THEN ret
  ELSE
    LET target_width  == TARGET_WIDTHS[i]
        target_height == getHeightForType(f.dir)
        big0 == Round(DENSITY_NUM * target_width, DENSITY_DEN)
        big1 == Round(DENSITY_NUM * target_height, DENSITY_DEN)
        big0x2 == Round(2 * DENSITY_NUM * target_width, DENSITY_DEN)
        big1x2 == Round(2 * DENSITY_NUM * target_height, DENSITY_DEN)
    IN  IF target_width * MIN_DPP_FOR_2X_NUM > width * MIN_DPP_FOR_2X_DEN
          THEN Append(ret, ImageVariant(
                 magick_resize(width, height, big0, big1, center[1], center[2], tie),
                 OutPath(g, f.stem, BannerSfx(target_width, "1x"))))
          ELSE BannerLadder(g, f, width, height, center, tie, i + 1,
                 ret \o << ImageVariant(
                             magick_resize(width, height, big0x2, big1x2, center[1], center[2], tie),
                             OutPath(g, f.stem, BannerSfx(target_width, "2x"))),
                           ImageVariant(Resize(big0, big1),
                             OutPath(g, f.stem, BannerSfx(target_width, "1x"))) >>)

BannerVariants(g, f, width, height, center, tie) ==
  BannerLadder(g, f, width, height, center, tie, 1, <<>>)

\* getVariantsForImage of deriver class g; center is the image's entry of
\* self.metadata['image_data'] at the call (unused by the course derivers).
getVariantsForImage(g, f, width, height, center, tie) ==
  CASE g = "Imagery" -> ImageryVariants(g, f)
    [] g = "Tag"     -> TagVariants(g, f, width, height, center)
    [] g = "Banner"  -> BannerVariants(g, f, width, height, center, tie)
    [] OTHER         -> BuddhismVariants(g, f, width, height)

\* The output paths of a variant list, in order, and as a set.
OutPathsOf(variants) == [i \in 1..Len(variants) |-> variants[i].outpath]
Range(seq) == {seq[i] : i \in 1..Len(seq)}

(* ------------------------------- state ---------------------------------- *)
VARIABLES
  \* the environment: source tree and class constants
  cmdline,        \* the flags the script is started with, every run
  sources,        \* per group, the files getSourceFiles() yields
  imageData,      \* per image-data group, <source>/image_metadata.json
  VERSION,        \* per group, the class's VERSION
  call,           \* a call of magick_resize or of the banner planner taken on
                  \* its own (FnSpec); no call while the script runs
  \* the destination tree
  destKind,       \* args.dest: "absent", "dir" or "file"
  top,            \* kind of each direct child of args.dest
  indexSame,      \* dest/index.html is byte-identical to the repo's
  meta,           \* per group, <target>/metadata.json
  outfs,          \* the output files: OutPath -> content
  modifiedTxt,    \* content of dest/modified_files.txt
  \* the running script
  pc,             \* position of the main thread
  args,           \* the parsed command line
  files_to_rm,    \* the module global
  gi,             \* index into Deriverclasses of the current deriver
  deriver,        \* the current deriver object
  todo,           \* source files the loop of run() has not reached yet
  futures,        \* the futures submitted by the current run() call
  modified_files, \* __main__'s list
  failure,        \* what ended the run, "" while none
  \* bookkeeping of the behaviour
  runs, events,
  prev,           \* outcome of the last real run and the changes since
  ctx             \* what this run started from and has done so far

envVars  == <<cmdline, sources, imageData, VERSION, call>>
fsVars   == <<destKind, top, indexSame, meta, outfs, modifiedTxt>>
procVars == <<pc, args, files_to_rm, gi, deriver, todo, futures, modified_files, failure>>
histVars == <<runs, events, prev, ctx>>
vars == <<envVars, fsVars, procVars, histVars>>

\* direct children of args.dest the model follows
TopNames == {"index.html", "modified_files.txt", "stray"} \cup {DST(g) : g \in Groups}
\* a path below args.dest: a direct child, or a file in a group directory
TopPath(n) == [dst |-> n, stem |-> "", sfx |-> ""]
MetaPath(g) == [dst |-> DST(g), stem |-> "metadata", sfx |-> ".json"]

\* <target>/metadata.json: missing, not JSON, or the object it holds
AbsentMeta  == [state |-> "absent",  version |-> 0, image_data |-> <<>>]
CorruptMeta == [state |-> "corrupt", version |-> 0, image_data |-> <<>>]
MetaFile(metadata) ==
  [state |-> "ok", version |-> metadata.version, image_data |-> metadata.image_data]

NoDeriver == [previous_info |-> [version |-> 0, image_data |-> <<>>],
              metadata |-> [version |-> 0, image_data |-> <<>>],
              modified_files |-> <<>>]
NoArgs == [remove_old |-> FALSE, dry_run |-> FALSE, cores |-> 1]

NoCall == [fn |-> "none", args |-> <<>>, done |-> FALSE, ret |-> <<>>]

CurrentGroup == Deriverclasses[gi]
FsSnapshot == [destKind |-> destKind, top |-> top, indexSame |-> indexSame,
               meta |-> meta, outfs |-> outfs, modifiedTxt |-> modifiedTxt]
NoSnapshot == [destKind |-> "absent", top |-> <<>>, indexSame |-> FALSE,
               meta |-> <<>>, outfs |-> <<>>, modifiedTxt |-> <<>>]
\* What a run started from and what it has done so far:
\*   ok, env     - the last real run ended normally / the changes made since
\*   fs0         - the destination tree when the run started
\*   submitted, finished, completed
\*               - per group, the invocations submitted to the pool, those
\*                 that have returned, those that returned exit status 0
\*   written     - output paths written by this run's invocations
\*   plan        - per variant planned: group, source file, output path,
\*                 whether the path existed and whether it was skipped
\*   touched     - the paths passed to touch_file
\*   metaWrites  - per group, writes of metadata.json
\*   started     - the groups whose deriver was constructed
\*   badInvocation, badProbe
\*               - index of the group an invocation / a probe failed in
\*   pruned, listWritten
\*               - remove_untouched_files / write_modified_file_list ran
NoCtx == [ok |-> FALSE, env |-> {}, fs0 |-> NoSnapshot,
          submitted |-> [g \in Groups |-> 0], finished |-> [g \in Groups |-> 0],
          completed |-> [g \in Groups |-> 0],
          written |-> {}, plan |-> {}, touched |-> {},
          metaWrites |-> [g \in Groups |-> 0],
          started |-> {}, badInvocation |-> 0, badProbe |-> 0,
          pruned |-> FALSE, listWritten |-> FALSE]

\* What a completed invocation leaves at a variant's output path.
Content(g, f, variant, ver, state, inv_ok) ==
  [src |-> f, command |-> variant.command, ver |-> ver, state |-> state, inv_ok |-> inv_ok]

(* ------------------------------- Init ----------------------------------- *)
InitialSources ==
  [g \in Groups |->
     CASE g = "Buddhism" -> {File("", "a", "jpg")}
       [] g = "Function" -> {}
       [] g = "Imagery"  -> {File("", "i", "png"), File("", "j", "png")}
       [] g = "Tag"      -> {File("x", "t", "png")}
       [] g = "Banner"   -> {File("courses", "h", "jpg")}]

\* Output files of an earlier build of buddhism/a.png made before metadata
\* files existed; the source has since been replaced by a.jpg.
LegacyVariants == BuddhismVariants("Buddhism", File("", "a", "png"), 1200, 1600)
LegacyOutputs ==
  [p \in Range(OutPathsOf(LegacyVariants)) |->
     LET i == CHOOSE j \in 1..Len(LegacyVariants) : LegacyVariants[j].outpath = p
     IN  Content("Buddhism", File("", "a", "png"), LegacyVariants[i], 0, "complete", TRUE)]

\* The destination trees a behaviour may start from:
\*   "fresh"  - args.dest does not exist;
\*   "legacy" - a directory holding a stray file, an outdated index.html, the
\*              legacy buddhism outputs and an imagery directory an earlier
\*              run left up to date but empty (it had no sources then);
\*   "file"   - args.dest is a regular file.
InitialTrees == {"fresh", "legacy", "file"}

Init ==
  /\ cmdline \in [remove_old : BOOLEAN, dry_run : BOOLEAN, cores : {1, MaxCores}]
  /\ sources = InitialSources
  /\ imageData = [g \in {"Tag", "Banner"} |-> [n \in ImageNames(g) |-> <<50, 50>>]]
  /\ VERSION = [g \in Groups |-> VERSION0(g)]
  /\ call = NoCall
  /\ \E tree \in InitialTrees :
       /\ destKind = (CASE tree = "fresh" -> "absent" [] tree = "legacy" -> "dir" [] OTHER -> "file")
       /\ top = [n \in TopNames |->
                   IF tree # "legacy" THEN "absent"
                   ELSE CASE n \in {"stray", "index.html"} -> "file"
                          [] n \in {DST("Buddhism"), DST("Imagery")} -> "dir"
                          [] OTHER -> "absent"]
       /\ meta = [g \in Groups |->
                   IF tree = "legacy" /\ g = "Imagery"
                     THEN MetaFile([version |-> VERSION0(g), image_data |-> <<>>])
                     ELSE AbsentMeta]
       /\ outfs = IF tree = "legacy" THEN LegacyOutputs ELSE <<>>
  /\ indexSame = FALSE
  /\ modifiedTxt = <<>>
  /\ pc = "idle"
  /\ args = NoArgs
  /\ files_to_rm = {}
  /\ gi = 0
  /\ deriver = NoDeriver
  /\ todo = {}
  /\ futures = <<>>
  /\ modified_files = <<>>
  /\ failure = ""
  /\ runs = 0 /\ events = 0
  /\ prev = [ok |-> FALSE, env |-> {}]
  /\ ctx = NoCtx

(* ---------------------------- helpers ----------------------------------- *)
\* (a variant of take_action that ignores --dry-run)
Acts_always == TRUE

\* take_action: the effect happens unless --dry-run
Acts == ~args.dry_run

\* (a variant of touch_file that forgets to remove the path)
touch_file_forgetting(S, path) == S

\* touch_file: drop the path from files_to_rm
touch_file(S, path) == S \ {path}

\* dest.iterdir(): the direct children of args.dest
DestListing == {TopPath(n) : n \in {m \in TopNames : top[m] # "absent"}}

Exists(outpath) == outpath \in DOMAIN outfs
GroupOfDst(d) == CHOOSE g \in Groups : DST(g) = d
IsGroupDir(n) == \E g \in Groups : DST(g) = n

AllFinished == \A i \in 1..Len(futures) : futures[i].state \in {"ok", "fail"}
Running == {i \in 1..Len(futures) : futures[i].state = "running"}

\* an uncaught exception or exit(1) in the main thread, outside the pool
Die(why) == pc' = "failed" /\ failure' = why

(* --------------------------- the main thread ---------------------------- *)
\* A new process: command_line_args() and the module-level initialisations.
StartRun ==
  /\ pc = "idle"
  /\ runs < MaxRuns
  /\ runs' = runs + 1
  /\ args' = cmdline
  /\ pc' = "prepare_dest"
  /\ ctx' = [NoCtx EXCEPT !.ok = prev.ok, !.env = prev.env, !.fs0 = FsSnapshot]
  /\ UNCHANGED <<envVars, fsVars, files_to_rm, gi, deriver, todo, futures,
                 modified_files, failure, events, prev>>

\* prepare_dest(args.dest, args.remove_old)
PrepareDest ==
  /\ pc = "prepare_dest"
  /\ IF destKind # "absent"
       THEN IF destKind # "dir"
              THEN /\ Die("exit(1): destination must be a directory")
                   /\ UNCHANGED <<files_to_rm, destKind>>
              ELSE /\ files_to_rm' = IF args.remove_old THEN DestListing ELSE files_to_rm
                   /\ pc' = "copy_file"
                   /\ UNCHANGED <<failure, destKind>>
       ELSE /\ destKind' = IF Acts THEN "dir" ELSE destKind
            /\ pc' = "copy_file"
            /\ UNCHANGED <<files_to_rm, failure>>
  /\ UNCHANGED <<envVars, top, indexSame, meta, outfs, modifiedTxt, args, gi, deriver,
                 todo, futures, modified_files, histVars>>

\* copy_file(repo_dir/'index.html', dest/'index.html')
CopyFile ==
  /\ pc = "copy_file"
  /\ IF top["index.html"] # "absent"
       THEN \* touch_file; unless byte-identical: unlink and copy2, both take_action
            /\ files_to_rm' = touch_file(files_to_rm, TopPath("index.html"))
            /\ ctx' = [ctx EXCEPT !.touched = @ \cup {TopPath("index.html")}]
            /\ indexSame' = (indexSame \/ Acts)
            /\ top' = top
       ELSE \* copy2, a take_action
            /\ files_to_rm' = files_to_rm
            /\ ctx' = ctx
            /\ indexSame' = (indexSame \/ Acts)
            /\ top' = IF Acts THEN [top EXCEPT !["index.html"] = "file"] ELSE top
  /\ gi' = 1
  /\ pc' = "deriver_init"
  /\ UNCHANGED <<envVars, destKind, meta, outfs, modifiedTxt, args, deriver, todo,
                 futures, modified_files, failure, runs, events, prev>>

\* deriverclass(repo_dir, dest, ...): BaseImageDeriver.__init__ and the
\* __init__ of the tag and banner derivers.
DeriverInit ==
  /\ pc = "deriver_init"
  /\ LET g == CurrentGroup IN
       /\ ctx' = [ctx EXCEPT !.started = @ \cup {g}]
       /\ IF top[DST(g)] = "file"
            THEN /\ Die("NotADirectoryError: metadata.json")
                 /\ UNCHANGED deriver
          ELSE IF meta[g].state = "corrupt"
            THEN /\ Die("JSONDecodeError: metadata.json")
                 /\ UNCHANGED deriver
          ELSE /\ deriver' =
                    [previous_info |-> [version |-> meta[g].version,
                                        image_data |-> meta[g].image_data],
                     metadata |-> [version |-> VERSION[g],
                                   image_data |-> IF HasImageData(g) THEN imageData[g] ELSE <<>>],
                     modified_files |-> <<>>]
               /\ pc' = "run"
               /\ UNCHANGED failure
  /\ UNCHANGED <<envVars, fsVars, args, files_to_rm, gi, todo, futures, modified_files,
                 runs, events, prev>>

\* rm_file(file), as the paths it removes and the files below them
rm_file(paths) ==
  /\ top' = [n \in TopNames |-> IF Acts /\ TopPath(n) \in paths THEN "absent" ELSE top[n]]
  /\ meta' = [g \in Groups |->
                IF Acts /\ TopPath(DST(g)) \in paths THEN AbsentMeta ELSE meta[g]]
  /\ outfs' = LET gone == {p \in DOMAIN outfs :
                             Acts /\ (TopPath(p.dst) \in paths \/ p \in paths)}
              IN  [p \in DOMAIN outfs \ gone |-> outfs[p]]

\* deriver.run() up to the loop over the source files
RunBegin ==
  /\ pc = "run"
  /\ LET g == CurrentGroup
         target == TopPath(DST(g)) IN
       \* (the source roots are taken to be existing directories)
       \* rm_file of a non-directory target, then mkdir -p: both take_action
       /\ top' = IF Acts THEN [top EXCEPT ![DST(g)] = "dir"] ELSE top
       /\ files_to_rm' = IF top[DST(g)] # "absent"
                           THEN touch_file(files_to_rm, target) ELSE files_to_rm
       /\ ctx' = IF top[DST(g)] # "absent"
                   THEN [ctx EXCEPT !.touched = @ \cup {target}] ELSE ctx
       /\ todo' = sources[g]
       /\ futures' = <<>>
       /\ pc' = IF sources[g] = {} THEN "await" ELSE "probe"
  /\ UNCHANGED <<envVars, destKind, indexSame, meta, outfs, modifiedTxt, args, gi,
                 deriver, modified_files, failure, runs, events, prev>>

\* (a variant of versionMatches that also accepts the version before)
versionMatches_offByOne(g, previous_info, metadata, version, name) ==
  IF g = "Banner"
    THEN /\ previous_info.version + 1 >= version
         /\ name \in DOMAIN previous_info.image_data
         /\ previous_info.image_data[name] = metadata.image_data[name]
    ELSE previous_info.version + 1 >= version

\* versionMatches(inpath, outpath) of deriver class g; name is inpath.name.
\* BannerImageDeriver overrides BaseImageDeriver's.
versionMatches(g, previous_info, metadata, version, name) ==
  IF g = "Banner"
    THEN /\ previous_info.version >= version
         /\ name \in DOMAIN previous_info.image_data
         /\ previous_info.image_data[name] = metadata.image_data[name]
    ELSE previous_info.version >= version

\* previous_info['image_data'][inpath.name] raises KeyError
versionMatchesRaises(g, previous_info, version, name) ==
  /\ g = "Banner"
  /\ previous_info.version >= version
  /\ name \notin DOMAIN previous_info.image_data

\* (a variant of magickCmdForFile that appends every output path of the
\* command to modified_files, whether or not it exists)
magickCmdForFile_recordingAll(g, f, tie) ==
  LET wh == Dims(g, f)
      name == FileName(f)
      center == IF HasImageData(g) THEN deriver.metadata.image_data[name] ELSE <<0, 0>>
      variants == getVariantsForImage(g, f, wh[1], wh[2], center, tie)
      metadata1 == IF g = "Tag"
                     THEN [deriver.metadata EXCEPT
                             !.image_data[name] = TagCrop(center, wh[1], wh[2])]
                     ELSE deriver.metadata
      valid(v) == Exists(v.outpath)
                    /\ versionMatches(g, deriver.previous_info, metadata1, VERSION[g], name)
      stale(v) == Exists(v.outpath)
                    /\ ~versionMatches(g, deriver.previous_info, metadata1, VERSION[g], name)
  IN  [variants |-> variants,
       metadata |-> metadata1,
       cmd      |-> SelectSeq(variants, LAMBDA v : ~valid(v)),
       modified |-> OutPathsOf(SelectSeq(variants, LAMBDA v : ~valid(v))),
       raises   |-> \E i \in 1..Len(variants) :
                      /\ Exists(variants[i].outpath)
                      /\ versionMatchesRaises(g, deriver.previous_info, VERSION[g], name)]

\* magickCmdForFile(file) after a successful probe: the variants planned, the
\* deriver's metadata after getVariantsForImage, the variants whose -write is
\* part of the command, and the output paths appended to modified_files.
magickCmdForFile(g, f, tie) ==
  LET wh == Dims(g, f)
      name == FileName(f)
      center == IF HasImageData(g) THEN deriver.metadata.image_data[name] ELSE <<0, 0>>
      variants == getVariantsForImage(g, f, wh[1], wh[2], center, tie)
      metadata1 == IF g = "Tag"
                     THEN [deriver.metadata EXCEPT
                             !.image_data[name] = TagCrop(center, wh[1], wh[2])]
                     ELSE deriver.metadata
      valid(v) == Exists(v.outpath)
                    /\ versionMatches(g, deriver.previous_info, metadata1, VERSION[g], name)
      stale(v) == Exists(v.outpath)
                    /\ ~versionMatches(g, deriver.previous_info, metadata1, VERSION[g], name)
  IN  [variants |-> variants,
       metadata |-> metadata1,
       cmd      |-> SelectSeq(variants, LAMBDA v : ~valid(v)),
       modified |-> OutPathsOf(SelectSeq(variants, LAMBDA v : stale(v))),
       raises   |-> \E i \in 1..Len(variants) :
                      /\ Exists(variants[i].outpath)
                      /\ versionMatchesRaises(g, deriver.previous_info, VERSION[g], name)]

Future(f, cmd) == [file |-> f, cmd |-> cmd, state |-> "queued", collected |-> FALSE]

\* One iteration of the loop over getSourceFiles() in run(): the probe
\* succeeds, the command is compiled and (unless --dry-run) submitted.
ProbeFile(f, tie) ==
  /\ pc = "probe"
  /\ f \in todo
  /\ LET g == CurrentGroup
         r == magickCmdForFile(g, f, tie)
         name == FileName(f) IN
       IF r.raises
         THEN /\ pc' = "unwind" /\ failure' = "KeyError: image_data"
              /\ UNCHANGED <<deriver, futures, todo, ctx>>
         ELSE
           /\ deriver' = [deriver EXCEPT !.metadata = r.metadata,
                                         !.modified_files = @ \o r.modified]
           /\ futures' = IF Len(r.cmd) > 0 /\ ~args.dry_run
                           THEN Append(futures, Future(f, r.cmd)) ELSE futures
           /\ ctx' = [ctx EXCEPT
                 !.submitted[g] = IF Len(r.cmd) > 0 /\ ~args.dry_run THEN @ + 1 ELSE @,
                 !.touched = @ \cup Range(OutPathsOf(r.variants)),
                 !.plan = @ \cup
                    {[g |-> g, file |-> f, outpath |-> r.variants[i].outpath,
                      existed |-> Exists(r.variants[i].outpath),
                      skipped |-> r.variants[i] \notin Range(r.cmd)] :
                        i \in 1..Len(r.variants)}]
           /\ todo' = todo \ {f}
           /\ pc' = IF todo' = {} THEN "await" ELSE "probe"
           /\ UNCHANGED failure
  \* touch_file(outpath) of every variant
  /\ files_to_rm' = files_to_rm \ Range(OutPathsOf(magickCmdForFile(CurrentGroup, f, tie).variants))
  /\ UNCHANGED <<envVars, fsVars, args, gi, modified_files, runs, events, prev>>

\* `identify` exits non-zero (check=True): CalledProcessError in the main thread
ProbeFail(f) ==
  /\ pc = "probe"
  /\ f \in todo
  /\ events < MaxEvents
  /\ events' = events + 1
  /\ pc' = "unwind"
  /\ failure' = "CalledProcessError: identify"
  /\ ctx' = [ctx EXCEPT !.badProbe = gi]
  /\ UNCHANGED <<envVars, fsVars, args, files_to_rm, gi, deriver, todo, futures,
                 modified_files, runs, prev>>

(* --------------------------- the worker pool ---------------------------- *)
PoolOpen == pc \in {"probe", "await", "unwind"}

\* (a variant of WorkerStart for a pool that starts a thread per work item)
WorkerStart_unbounded(i) ==
  /\ PoolOpen
  /\ i \in 1..Len(futures)
  /\ futures[i].state = "queued"
  /\ \A j \in 1..(i - 1) : futures[j].state # "queued"
  /\ futures' = [futures EXCEPT ![i].state = "running"]
  /\ UNCHANGED <<envVars, fsVars, pc, args, files_to_rm, gi, deriver, todo,
                 modified_files, failure, histVars>>

\* A worker thread takes the oldest queued work item.
WorkerStart(i) ==
  /\ PoolOpen
  /\ i \in 1..Len(futures)
  /\ futures[i].state = "queued"
  /\ \A j \in 1..(i - 1) : futures[j].state # "queued"
  /\ Cardinality(Running) < args.cores
  /\ futures' = [futures EXCEPT ![i].state = "running"]
  /\ UNCHANGED <<envVars, fsVars, pc, args, files_to_rm, gi, deriver, todo,
                 modified_files, failure, histVars>>

\* the files an invocation has written when it has got through the first n
\* of its outputs, the last of them only partly if `partial`
Written(g, fut, n, partial, inv_ok) ==
  LET paths == {fut.cmd[k].outpath : k \in 1..n}
      last(p) == CHOOSE k \in 1..n :
                   fut.cmd[k].outpath = p /\ \A m \in (k + 1)..n : fut.cmd[m].outpath # p
  IN  [p \in DOMAIN outfs \cup paths |->
         IF p \in paths
           THEN Content(g, fut.file, fut.cmd[last(p)], VERSION[g],
                        IF partial /\ last(p) = n THEN "partial" ELSE "complete", inv_ok)
           ELSE outfs[p]]

\* subprocess.run(cmd, shell=True) returns with exit status 0
WorkerFinishOk(i) ==
  /\ PoolOpen
  /\ i \in 1..Len(futures)
  /\ futures[i].state = "running"
  /\ futures' = [futures EXCEPT ![i].state = "ok"]
  /\ outfs' = Written(CurrentGroup, futures[i], Len(futures[i].cmd), FALSE, TRUE)
  /\ ctx' = [ctx EXCEPT !.written = @ \cup {futures[i].cmd[k].outpath :
                                               k \in 1..Len(futures[i].cmd)},
                        !.finished[CurrentGroup] = @ + 1,
                        !.completed[CurrentGroup] = @ + 1]
  /\ UNCHANGED <<envVars, destKind, top, indexSame, meta, modifiedTxt, pc, args,
                 files_to_rm, gi, deriver, todo, modified_files, failure,
                 runs, events, prev>>

\* ... or with a non-zero exit status, having got to its n-th output
WorkerFinishFail(i, n) ==
  /\ PoolOpen
  /\ i \in 1..Len(futures)
  /\ futures[i].state = "running"
  /\ n \in 0..Len(futures[i].cmd)
  /\ events < MaxEvents
  /\ events' = events + 1
  /\ futures' = [futures EXCEPT ![i].state = "fail"]
  /\ outfs' = Written(CurrentGroup, futures[i], n, TRUE, FALSE)
  /\ ctx' = [ctx EXCEPT !.written = @ \cup {futures[i].cmd[k].outpath : k \in 1..n},
                        !.finished[CurrentGroup] = @ + 1,
                        !.badInvocation = gi]
  /\ UNCHANGED <<envVars, destKind, top, indexSame, meta, modifiedTxt, pc, args,
                 files_to_rm, gi, deriver, todo, modified_files, failure,
                 runs, prev>>

(* ------------------- the main thread, after the loop -------------------- *)
\* (a variant of Collect that does not look at result.returncode)
Collect_ignoringStatus(i) ==
  /\ pc = "await"
  /\ i \in 1..Len(futures)
  /\ futures[i].state \in {"ok", "fail"}
  /\ ~futures[i].collected
  /\ futures' = [futures EXCEPT ![i].collected = TRUE]
  /\ UNCHANGED <<envVars, fsVars, pc, failure, args, files_to_rm, gi, deriver, todo,
                 modified_files, histVars>>

\* one iteration of `for future in as_completed(futures)`
Collect(i) ==
  /\ pc = "await"
  /\ i \in 1..Len(futures)
  /\ futures[i].state \in {"ok", "fail"}
  /\ ~futures[i].collected
  /\ futures' = [futures EXCEPT ![i].collected = TRUE]
  /\ IF futures[i].state = "fail"
       THEN pc' = "unwind" /\ failure' = "CalledProcessError: convert"
       ELSE UNCHANGED <<pc, failure>>
  /\ UNCHANGED <<envVars, fsVars, args, files_to_rm, gi, deriver, todo,
                 modified_files, histVars>>

\* (a variant of Unwind in which __main__ catches the exception and goes on
\* with the next deriver)
Unwind_swallowing ==
  /\ pc = "unwind"
  /\ AllFinished
  /\ IF gi < Len(Deriverclasses)
       THEN gi' = gi + 1 /\ pc' = "deriver_init"
       ELSE gi' = gi /\ pc' = "remove_old"
  /\ UNCHANGED <<envVars, fsVars, args, files_to_rm, deriver, todo, futures,
                 modified_files, failure, histVars>>

\* (a variant of Unwind for a pool shut down with wait=False)
Unwind_notWaiting ==
  /\ pc = "unwind"
  /\ pc' = "failed"
  /\ UNCHANGED <<envVars, fsVars, args, files_to_rm, gi, deriver, todo, futures,
                 modified_files, failure, histVars>>

\* The exception leaves the `with` block: ThreadPoolExecutor.__exit__ is
\* shutdown(wait=True), which returns once every submitted item has run.
Unwind ==
  /\ pc = "unwind"
  /\ AllFinished
  /\ pc' = "failed"
  /\ UNCHANGED <<envVars, fsVars, args, files_to_rm, gi, deriver, todo, futures,
                 modified_files, failure, histVars>>

\* The rest of run() once as_completed is exhausted, and __main__'s
\* `modified_files += deriver.modified_files`.
Finalize ==
  /\ pc = "await"
  /\ \A i \in 1..Len(futures) : futures[i].collected
  /\ LET g == CurrentGroup IN
       /\ meta' = IF Acts THEN [meta EXCEPT ![g] = MetaFile(deriver.metadata)] ELSE meta
       /\ ctx' = [ctx EXCEPT !.metaWrites[g] = IF Acts THEN @ + 1 ELSE @]
  /\ modified_files' = modified_files \o deriver.modified_files
  /\ IF gi < Len(Deriverclasses)
       THEN gi' = gi + 1 /\ pc' = "deriver_init"
       ELSE gi' = gi /\ pc' = "remove_old"
  /\ UNCHANGED <<envVars, destKind, top, indexSame, outfs, modifiedTxt, args,
                 files_to_rm, deriver, todo, futures, failure, runs, events, prev>>

\* `if len(files_to_rm)>0: remove_untouched_files()`
RemoveOld ==
  /\ pc = "remove_old"
  /\ rm_file(files_to_rm)
  /\ ctx' = [ctx EXCEPT !.pruned = (files_to_rm # {})]
  /\ pc' = "report"
  /\ UNCHANGED <<envVars, destKind, indexSame, modifiedTxt, args, files_to_rm, gi,
                 deriver, todo, futures, modified_files, failure, runs, events, prev>>

\* `if len(modified_files)>0: write_modified_file_list(modified_files)`
Report ==
  /\ pc = "report"
  /\ IF Len(modified_files) > 0 /\ Acts
       THEN /\ top' = [top EXCEPT !["modified_files.txt"] = "file"]
            /\ modifiedTxt' = modified_files
            /\ ctx' = [ctx EXCEPT !.listWritten = TRUE]
       ELSE UNCHANGED <<top, modifiedTxt, ctx>>
  /\ pc' = "done"
  /\ UNCHANGED <<envVars, destKind, indexSame, meta, outfs, args, files_to_rm, gi,
                 deriver, todo, futures, modified_files, failure, runs, events, prev>>

\* The process is gone; what remains is the file system.
Exit ==
  /\ pc \in {"done", "failed"}
  /\ pc' = "idle"
  /\ prev' = IF args.dry_run THEN prev ELSE [ok |-> pc = "done", env |-> {}]
  /\ args' = NoArgs /\ files_to_rm' = {} /\ gi' = 0 /\ deriver' = NoDeriver
  /\ todo' = {} /\ futures' = <<>> /\ modified_files' = <<>> /\ failure' = ""
  /\ ctx' = NoCtx
  /\ UNCHANGED <<envVars, fsVars, runs, events>>

(* ---------------------------- the environment --------------------------- *)
\* A change between two runs: after one run has ended, before the next starts.
EnvStep(event) ==
  /\ pc = "idle"
  /\ runs >= 1 /\ runs < MaxRuns
  /\ events < MaxEvents
  /\ events' = events + 1
  /\ prev' = [prev EXCEPT !.env = @ \cup {event}]
  /\ UNCHANGED <<procVars, runs, ctx>>

\* a deriver class's VERSION is raised by one in the script
EnvBumpVersion(g) ==
  /\ EnvStep([kind |-> "version", g |-> g])
  /\ VERSION' = [VERSION EXCEPT ![g] = @ + 1]
  /\ UNCHANGED <<cmdline, sources, imageData, call, fsVars>>

\* an image's focal point is edited in image_metadata.json
EnvSetCenter(g, name, center) ==
  /\ HasImageData(g)
  /\ imageData[g][name] # center
  /\ EnvStep([kind |-> "center", g |-> g])
  /\ imageData' = [imageData EXCEPT ![g][name] = center]
  /\ UNCHANGED <<cmdline, sources, VERSION, call, fsVars>>

\* a source image is added or removed
EnvToggleSource(g, f) ==
  /\ EnvStep([kind |-> "source", g |-> g])
  /\ sources' = [sources EXCEPT ![g] = IF f \in @ THEN @ \ {f} ELSE @ \cup {f}]
  /\ UNCHANGED <<cmdline, imageData, VERSION, call, fsVars>>

\* a metadata.json is damaged (truncated, hand-edited)
EnvCorruptMetadata(g) ==
  /\ meta[g].state = "ok"
  /\ EnvStep([kind |-> "metadata", g |-> g])
  /\ meta' = [meta EXCEPT ![g] = CorruptMeta]
  /\ UNCHANGED <<envVars, destKind, top, indexSame, outfs, modifiedTxt>>

\* a group's destination directory is replaced by a regular file
EnvTargetFile(g) ==
  /\ destKind = "dir"
  /\ top[DST(g)] # "file"
  /\ EnvStep([kind |-> "target", g |-> g])
  /\ top' = [top EXCEPT ![DST(g)] = "file"]
  /\ meta' = [meta EXCEPT ![g] = AbsentMeta]
  /\ outfs' = [p \in {q \in DOMAIN outfs : q.dst # DST(g)} |-> outfs[p]]
  /\ UNCHANGED <<envVars, destKind, indexSame, modifiedTxt>>

Next ==
  \/ StartRun
  \/ PrepareDest
  \/ CopyFile
  \/ DeriverInit
  \/ RunBegin
  \/ \E f \in todo, tie \in Ties : ProbeFile(f, tie)
  \/ \E f \in todo : ProbeFail(f)
  \/ \E i \in 1..Len(futures) : WorkerStart(i)
  \/ \E i \in 1..Len(futures) : WorkerFinishOk(i)
  \/ \E i \in 1..Len(futures), n \in 0..3 : WorkerFinishFail(i, n)
  \/ \E i \in 1..Len(futures) : Collect(i)
  \/ Unwind
  \/ Finalize
  \/ RemoveOld
  \/ Report
  \/ Exit
  \/ \E g \in Groups : EnvBumpVersion(g)
  \/ \E g \in {"Tag", "Banner"} : \E n \in ImageNames(g), c \in Centers : EnvSetCenter(g, n, c)
  \/ \E g \in Groups : \E f \in SourceUniverse(g) : EnvToggleSource(g, f)
  \/ \E g \in Groups : EnvCorruptMetadata(g)
  \/ \E g \in Groups : EnvTargetFile(g)

Spec == Init /\ [][Next]_vars

\* The pool's threads are scheduled and the external engine terminates: a
\* queued item is taken once a worker is free, a running invocation returns.
FutureIds == 1..Cardinality(UNION {SourceUniverse(g) : g \in Groups})
Fairness ==
  \A i \in FutureIds : WF_vars(WorkerStart(i)) /\ WF_vars(WorkerFinishOk(i))
FairSpec == Spec /\ Fairness

TypeOK ==
  /\ pc \in {"idle", "prepare_dest", "copy_file", "deriver_init", "run", "probe",
             "await", "unwind", "remove_old", "report", "done", "failed"}
  /\ destKind \in {"absent", "dir", "file"}
  /\ \A g \in Groups : top[DST(g)] # "dir" => meta[g].state = "absent"
  /\ \A p \in DOMAIN outfs : top[p.dst] = "dir"
  /\ destKind # "dir" => \A n \in TopNames : top[n] = "absent"
  /\ call = NoCall

(* ------------------- the pure functions, on their own ------------------- *)
\* magick_resize and BannerImageDeriver.getVariantsForImage read nothing but
\* their arguments (the banner planner also its image's center); FnSpec
\* draws the arguments of one call and applies the function to them.

\* pixel dimensions tried for magick_resize: 1..MaxDim and two round sizes
MaxDim == 5
DimValues == 1..MaxDim \cup {500, 1000}
\* focal percentages tried
Percents == {0, 33, 50, 100}
ResizeArgs ==
  [width : DimValues, height : DimValues,
   target_width : DimValues, target_height : DimValues,
   center_x : Percents, center_y : Percents]

\* source widths tried for the banner planner: for every breakpoint the last
\* width that is too narrow for it and the first that is not, and some others
BannerWidths ==
  {(MIN_DPP_FOR_2X_NUM * TARGET_WIDTHS[i]) \div MIN_DPP_FOR_2X_DEN + d :
     i \in 1..Len(TARGET_WIDTHS), d \in {0, 1}} \cup {1, 900, 12000}
BannerArgs ==
  [file : {File("courses", "h", "jpg"), File("headers", "h", "jpg")},
   width : BannerWidths, height : {600}, center : Centers]

FnInit ==
  /\ call \in {[fn |-> "magick_resize", args |-> a, done |-> FALSE, ret |-> <<>>] :
                 a \in ResizeArgs}
           \cup {[fn |-> "getVariantsForImage", args |-> a, done |-> FALSE, ret |-> <<>>] :
                 a \in BannerArgs}
  /\ cmdline = NoArgs
  /\ sources = InitialSources
  /\ imageData = [g \in {"Tag", "Banner"} |-> [n \in ImageNames(g) |-> <<50, 50>>]]
  /\ VERSION = [g \in Groups |-> VERSION0(g)]
  /\ destKind = "absent"
  /\ top = [n \in TopNames |-> "absent"]
  /\ meta = [g \in Groups |-> AbsentMeta]
  /\ outfs = <<>>
  /\ indexSame = FALSE
  /\ modifiedTxt = <<>>
  /\ pc = "idle"
  /\ args = NoArgs
  /\ files_to_rm = {}
  /\ gi = 0
  /\ deriver = NoDeriver
  /\ todo = {}
  /\ futures = <<>>
  /\ modified_files = <<>>
  /\ failure = ""
  /\ runs = 0 /\ events = 0
  /\ prev = [ok |-> FALSE, env |-> {}]
  /\ ctx = NoCtx

\* magick_resize(width, height, target_width, target_height, center_x, center_y)
CallMagickResize ==
  /\ call.fn = "magick_resize" /\ ~call.done
  /\ \E tie \in Ties :
       call' = [call EXCEPT
         !.done = TRUE,
         !.ret = magick_resize(call.args.width, call.args.height,
                               call.args.target_width, call.args.target_height,
                               call.args.center_x, call.args.center_y, tie)]
  /\ UNCHANGED <<cmdline, sources, imageData, VERSION, fsVars, procVars, histVars>>

\* BannerImageDeriver.getVariantsForImage(file, width, height), the image's
\* center being call.args.center
CallBannerVariants ==
  /\ call.fn = "getVariantsForImage" /\ ~call.done
  /\ \E tie \in Ties :
       call' = [call EXCEPT
         !.done = TRUE,
         !.ret = getVariantsForImage("Banner", call.args.file, call.args.width,
                                     call.args.height, call.args.center, tie)]
  /\ UNCHANGED <<cmdline, sources, imageData, VERSION, fsVars, procVars, histVars>>

FnNext == CallMagickResize \/ CallBannerVariants
FnSpec == FnInit /\ [][FnNext]_vars

(* ======================================================================= *)
(* Properties                                                              *)
(* ======================================================================= *)
\* This run is a real (not --dry-run) run in progress or just ended.
RealRun == pc # "idle" /\ ~args.dry_run
\* ... that started from the tree a successful run left, nothing changed since
Rerun == RealRun /\ ctx.ok /\ ctx.env = {}
\* the output paths getVariantsForImage plans for a source file
PlannedOutPaths(g, f) ==
  Range(OutPathsOf(getVariantsForImage(g, f, Dims(g, f)[1], Dims(g, f)[2], <<50, 50>>, 0)))
NoInvocation == \A g \in Groups : ctx.submitted[g] = 0

\* C1 -- Idempotence: a run that starts from the tree a successful run left,
\* with the same sources, versions and focal points, submits no invocation
\* and, when it has ended, has left the destination tree as it found it.
C1_Idempotence ==
  Rerun => /\ NoInvocation
           /\ pc = "done" => FsSnapshot = ctx.fs0

\* (the part of C1 the script keeps: no invocation, no output or metadata
\* changed)
C1_NoInvocationOnRerun ==
  Rerun => /\ NoInvocation
           /\ outfs = ctx.fs0.outfs
           /\ pc = "done" => meta = ctx.fs0.meta

\* The cache-validity rule as the specification words it: the persisted
\* version is at least the configured one and, in a group with per-image
\* extra data, the persisted value for the image equals the current one.
PersistedValid(g, name) ==
  LET persisted == ctx.fs0.meta[g] IN
    /\ persisted.version >= VERSION[g]
    /\ HasImageData(g) =>
         /\ name \in DOMAIN persisted.image_data
         /\ persisted.image_data[name] = imageData[g][name]

\* C2 -- Cache validity: an output path that already exists is skipped if
\* and only if the persisted metadata is valid for its image (version, and
\* the extra value in the tag and banner groups).
C2_CacheValidity ==
  \A d \in ctx.plan :
    d.existed => (d.skipped <=> PersistedValid(d.g, FileName(d.file)))

\* (C2's particular case: after a focal point of group g was changed, no
\* existing output of that group is skipped)
C2_FocalChangeMakesStale ==
  \A d \in ctx.plan :
    (d.existed /\ [kind |-> "center", g |-> d.g] \in ctx.env /\ ctx.ok) => ~d.skipped

\* (C2 restricted to the groups whose versionMatches the claim describes)
C2_ExceptTag ==
  \A d \in ctx.plan :
    (d.existed /\ d.g # "Tag") => (d.skipped <=> PersistedValid(d.g, FileName(d.file)))

\* C3 -- Whole-image regeneration: the variants kept for an image are none
\* or all of the image's variants, never a strict non-empty subset.
C3_WholeImage ==
  \A g \in Groups : \A f \in SourceUniverse(g) :
    LET mine == {d \in ctx.plan : d.g = g /\ d.file = f}
        kept == {d \in mine : ~d.skipped}
    IN  kept = {} \/ kept = mine

GroupIndex(g) == CHOOSE i \in 1..Len(Deriverclasses) : Deriverclasses[i] = g

\* C4 -- Version bump: after a successful run, with one group's VERSION
\* raised and nothing else changed, the next run keeps every variant of
\* every image of that group, has rewritten them all once the group is
\* finished, and submits and writes nothing for any other group.
C4_VersionBump ==
  \A g \in Groups :
    (RealRun /\ ctx.ok /\ ctx.env = {[kind |-> "version", g |-> g]}) =>
      /\ \A h \in Groups \ {g} : ctx.submitted[h] = 0
      /\ \A p \in ctx.written : p.dst = DST(g)
      /\ \A d \in ctx.plan : d.g = g => ~d.skipped
      /\ ctx.metaWrites[g] = 1 =>
           \A f \in sources[g] : PlannedOutPaths(g, f) \subseteq ctx.written

C4_Witness ==
  \E g \in Groups :
    /\ RealRun /\ ctx.ok /\ ctx.env = {[kind |-> "version", g |-> g]}
    /\ pc = "done"
    /\ sources[g] # {}
    /\ \A f \in sources[g] : PlannedOutPaths(g, f) \subseteq ctx.written

\* C5 -- Metadata flush ordering: a group's metadata.json is written at most
\* once per run, only when every invocation submitted for the group has
\* returned exit status 0; after a probe or an invocation of the group has
\* failed the file is as it was when the run started.
C5_MetadataFlush ==
  pc # "idle" =>
    \A g \in Groups :
      /\ ctx.metaWrites[g] <= 1
      /\ ctx.metaWrites[g] = 1 => ctx.completed[g] = ctx.submitted[g]
      /\ GroupIndex(g) \in {ctx.badInvocation, ctx.badProbe} =>
           /\ ctx.metaWrites[g] = 0
           /\ meta[g] = ctx.fs0.meta[g]

C5_Witness ==
  /\ pc = "failed"
  /\ ctx.badInvocation > 1
  /\ ctx.fs0.meta[Deriverclasses[ctx.badInvocation]].state = "ok"
  /\ ctx.submitted[Deriverclasses[ctx.badInvocation]] = 2
  /\ \E g \in Groups : ctx.metaWrites[g] = 1 /\ ctx.submitted[g] > 0

\* C6 -- Fail-fast: once an invocation of a group has exited non-zero the
\* run stays in that group until it ends as failed: no later deriver is
\* constructed, nothing is pruned and modified_files.txt is not written.
C6_FailFast ==
  (pc # "idle" /\ ctx.badInvocation # 0) =>
    /\ pc \in {"probe", "await", "unwind", "failed"}
    /\ gi = ctx.badInvocation
    /\ ctx.started = {Deriverclasses[i] : i \in 1..gi}
    /\ ~ctx.pruned /\ ~ctx.listWritten
    /\ \A n \in TopNames : ctx.fs0.destKind = "dir" /\ ctx.fs0.top[n] # "absent"
                             => top[n] # "absent"
    /\ modifiedTxt = ctx.fs0.modifiedTxt

C6_Witness ==
  /\ pc = "failed"
  /\ ctx.badInvocation \in 1..(Len(Deriverclasses) - 1)
  /\ args.remove_old /\ files_to_rm # {}
  /\ Len(deriver.modified_files) > 0

\* C7 -- Pruning: once the pruning step of a real run is over, a path that
\* existed when the run started (a direct child of the destination or an
\* output file in a group directory) and was never touched is gone if and
\* only if --remove-old was given.
PathsIn(fs) ==
  {TopPath(n) : n \in {m \in DOMAIN fs.top : fs.top[m] # "absent"}} \cup DOMAIN fs.outfs
C7_Pruning ==
  (RealRun /\ pc = "report") =>
    \A p \in PathsIn(ctx.fs0) \ ctx.touched :
      (p \notin PathsIn(FsSnapshot)) <=> args.remove_old

\* (C7 for the direct children of the destination only)
C7_TopLevelOnly ==
  (RealRun /\ pc = "report") =>
    \A p \in PathsIn(ctx.fs0) \ ctx.touched :
      p.stem = "" => ((p \notin PathsIn(FsSnapshot)) <=> args.remove_old)

\* C8 -- Cache-read recovery: a metadata.json that is absent or is not JSON
\* never ends the run; the deriver takes the persisted version to be 0 and
\* skips no existing output.
C8_CacheReadRecovery ==
  \A g \in ctx.started :
    ctx.fs0.meta[g].state \in {"absent", "corrupt"} =>
      /\ ~(pc = "failed" /\ gi = GroupIndex(g) /\ failure = "JSONDecodeError: metadata.json")
      /\ (gi = GroupIndex(g) /\ pc \in {"run", "probe", "await"})
           => deriver.previous_info.version = 0
      /\ \A d \in ctx.plan : (d.g = g /\ d.existed) => ~d.skipped

\* (C8 for an absent metadata.json only)
C8_AbsentOnly ==
  \A g \in ctx.started :
    ctx.fs0.meta[g].state = "absent" =>
      /\ ~(pc = "failed" /\ gi = GroupIndex(g) /\ ctx.badInvocation = 0 /\ ctx.badProbe = 0)
      /\ (gi = GroupIndex(g) /\ pc \in {"run", "probe", "await"})
           => deriver.previous_info.version = 0
      /\ \A d \in ctx.plan : (d.g = g /\ d.existed) => ~d.skipped

\* C9 -- No cancellation: the failure of a probe or an invocation reaches
\* the process only when every invocation submitted has returned, and every
\* invocation submitted does return.
AllReturned == \A g \in Groups : ctx.finished[g] = ctx.submitted[g]
C9_FailureAfterAll == pc = "failed" => AllFinished /\ AllReturned
C9_NoCancellation ==
  /\ [](pc = "failed" => AllFinished /\ AllReturned)
  /\ \A g \in Groups :
       (ctx.submitted[g] > ctx.finished[g]) ~> (ctx.submitted[g] = ctx.finished[g])

C9_Witness ==
  /\ pc = "failed"
  /\ Len(futures) = 2
  /\ futures[1].state = "fail"
  /\ futures[2].state = "ok"
  /\ ~futures[2].collected

\* C10 -- Output-path exclusivity: within a run no output path is planned
\* for two distinct source images of a group.
C10_OutputPathExclusivity ==
  \A d1, d2 \in ctx.plan :
    (d1.g = d2.g /\ d1.file # d2.file) => d1.outpath # d2.outpath

\* C11 -- Bounded parallelism: the invocations executing at any moment are
\* at most --cores; every invocation submitted to the pool is begun once and
\* returns once (the returns counted equal the futures that have returned,
\* and all have returned when the group's metadata is written); under
\* --dry-run nothing is ever submitted or executing.
Returned == {i \in 1..Len(futures) : futures[i].state \in {"ok", "fail"}}
C11_BoundedParallelism ==
  pc # "idle" =>
    /\ Cardinality(Running) <= args.cores
    /\ args.dry_run => /\ futures = <<>>
                       /\ \A g \in Groups : ctx.submitted[g] = 0
    /\ PoolOpen => /\ Len(futures) = ctx.submitted[CurrentGroup]
                   /\ Cardinality(Returned) = ctx.finished[CurrentGroup]
    /\ \A g \in Groups :
         /\ ctx.finished[g] <= ctx.submitted[g]
         /\ ctx.metaWrites[g] = 1 => ctx.finished[g] = ctx.submitted[g]

C11_Witness ==
  /\ pc # "idle" /\ ~args.dry_run
  /\ Cardinality(Running) = args.cores
  /\ \E i \in 1..Len(futures) : futures[i].state = "queued"

\* C12 -- Dry-run: under --dry-run no invocation is submitted, every file
\* and directory of the destination tree (index.html, the group
\* directories, the outputs, modified_files.txt, each metadata.json) stays
\* as it was when the run started, and nothing is pruned.
C12_DryRun ==
  (pc # "idle" /\ args.dry_run) =>
    /\ FsSnapshot = ctx.fs0
    /\ futures = <<>>
    /\ ctx.written = {}
    /\ \A g \in Groups : ctx.metaWrites[g] = 0

C12_Witness ==
  /\ pc = "done" /\ args.dry_run /\ args.remove_old
  /\ files_to_rm # {}
  /\ Len(modified_files) > 0
  /\ ~indexSame
  /\ \E g \in Groups : top[DST(g)] = "absent"

\* C13 -- Destination-root recovery: a group whose destination directory
\* is a regular file when the run starts does not end the run; once its
\* source files are being probed the path is a directory and was touched.
C13_DestinationRootRecovery ==
  \A g \in ctx.started :
    (ctx.fs0.destKind = "dir" /\ ctx.fs0.top[DST(g)] = "file") =>
      /\ ~(pc = "failed" /\ gi = GroupIndex(g)
             /\ failure = "NotADirectoryError: metadata.json")
      /\ (gi = GroupIndex(g) /\ pc \in {"probe", "await"} /\ Acts) =>
           /\ top[DST(g)] = "dir"
           /\ TopPath(DST(g)) \in ctx.touched

\* C16 -- Planner purity: while a deriver probes its source files the
\* per-image data in self.metadata (persisted later) is the data read from
\* image_metadata.json: getVariantsForImage leaves it unchanged.
C16_PlannerPurity ==
  (pc \in {"probe", "await", "unwind"} /\ HasImageData(CurrentGroup)) =>
    deriver.metadata.image_data = imageData[CurrentGroup]

\* C17 -- Modified recording, as stated: at the end of a real run every
\* variant kept in a command is in the modified list, the list is the set of
\* output paths the run's invocations wrote, and modified_files.txt was
\* written if an output was written.
Kept == {d \in ctx.plan : ~d.skipped}
C17_ModifiedRecording ==
  (RealRun /\ pc = "done") =>
    /\ \A d \in Kept : d.outpath \in Range(modified_files)
    /\ Range(modified_files) = ctx.written
    /\ ctx.written # {} => ctx.listWritten

\* C17, amended -- only a kept variant whose output path already exists is
\* recorded: at the end of a real run the modified list is the set of output
\* paths that existed, were stale and were rewritten, and modified_files.txt
\* is written, with that list, if and only if the list is not empty.
C17_ModifiedRecording_Amended ==
  (RealRun /\ pc = "done") =>
    /\ Range(modified_files) = {d.outpath : d \in {e \in Kept : e.existed}}
    /\ Range(modified_files) \subseteq ctx.written
    /\ ctx.listWritten <=> Len(modified_files) > 0
    /\ ctx.listWritten => modifiedTxt = modified_files

C17_Witness ==
  /\ RealRun /\ pc = "done"
  /\ Len(modified_files) > 0
  /\ ctx.written \ Range(modified_files) # {}
  /\ ctx.listWritten

\* C18 -- Valid implies fully produced: an output a run finds and skips as
\* valid was left complete, by an invocation that returned exit status 0,
\* at a version not below the class's VERSION.
C18_ValidImpliesProduced ==
  \A d \in ctx.plan :
    (d.skipped /\ d.outpath \in DOMAIN ctx.fs0.outfs /\ d.outpath \notin ctx.written) =>
      LET found == ctx.fs0.outfs[d.outpath]
      IN  /\ found.state = "complete"
          /\ found.inv_ok
          /\ found.ver >= VERSION[d.g]

\* C19 -- Pruning never removes live paths: pruning happens only after the
\* last deriver has finished with all its invocations returned, and when it
\* is over every path touched during the run (index.html, a group directory,
\* an output path a deriver planned) is still there.
C19_PruningKeepsLivePaths ==
  /\ ctx.pruned =>
       /\ pc \in {"report", "done"}
       /\ args.remove_old
       /\ gi = Len(Deriverclasses)
       /\ ctx.started = Groups
       /\ AllReturned
       /\ ctx.badInvocation = 0 /\ ctx.badProbe = 0
  /\ (RealRun /\ pc = "report") =>
       \A p \in ctx.touched : p \in PathsIn(FsSnapshot)

C19_Witness ==
  /\ RealRun /\ pc = "report" /\ ctx.pruned
  /\ TopPath("stray") \in PathsIn(ctx.fs0) \ PathsIn(FsSnapshot)
  /\ TopPath(DST("Buddhism")) \in ctx.touched
  /\ \E p \in ctx.touched : p.stem # "" /\ p \in DOMAIN ctx.fs0.outfs
  /\ TopPath("index.html") \in ctx.touched

\* C14 -- Banner breakpoint ladder: the planner's list is, in ascending
\* order of breakpoint, a 2x then a 1x output for every breakpoint b before
\* the first one with b * MIN_DPP_FOR_2X > width, then a single 1x output
\* for that breakpoint, and nothing for any larger one; it is never empty.
\* A source 900 wide gives 400-2x, 400-1x, 594-1x.
WideEnough(width, i) ==
  MIN_DPP_FOR_2X_NUM * TARGET_WIDTHS[i] <= MIN_DPP_FOR_2X_DEN * width
FirstFailing(width) ==
  CHOOSE k \in 1..(Len(TARGET_WIDTHS) + 1) :
    /\ \A j \in 1..(k - 1) : WideEnough(width, j)
    /\ k <= Len(TARGET_WIDTHS) => ~WideEnough(width, k)
ExpectedSuffixes(width) ==
  LET k == FirstFailing(width)
  IN  [j \in 1..(2 * (k - 1) + IF k <= Len(TARGET_WIDTHS) THEN 1 ELSE 0) |->
         IF j > 2 * (k - 1) THEN BannerSfx(TARGET_WIDTHS[k], "1x")
         ELSE BannerSfx(TARGET_WIDTHS[(j + 1) \div 2], IF j % 2 = 1 THEN "2x" ELSE "1x")]
SuffixesOf(variants) == [j \in 1..Len(variants) |-> variants[j].outpath.sfx]
C15_ComputeCrop ==
  (call.fn = "magick_resize" /\ call.done) =>
    LET a == call.args
        r == call.ret
        wider  == a.target_width * a.height > a.width * a.target_height
        taller == a.target_width * a.height < a.width * a.target_height
        cropped == IF r.crop = <<>> THEN <<a.width, a.height>>
                                    ELSE <<r.crop[1], r.crop[2]>>
    IN  /\ r.crop # <<>> => (wider \/ taller)
        /\ (r.crop # <<>> /\ wider) =>
             /\ r.crop[1] = a.width /\ r.crop[3] = 0
             /\ r.crop[2] # a.height
             /\ r.crop[4] = Round((a.height - r.crop[2]) * a.center_y, 100)
        /\ (r.crop # <<>> /\ taller) =>
             /\ r.crop[2] = a.height /\ r.crop[4] = 0
             /\ r.crop[1] # a.width
             /\ r.crop[3] = Round((a.width - r.crop[1]) * a.center_x, 100)
        /\ (r.resize # <<>>) <=> (cropped # <<a.target_width, a.target_height>>)
        /\ r.resize # <<>> => r.resize = <<a.target_width, a.target_height>>
        /\ (a = [width |-> 1000, height |-> 1000, target_width |-> 500,
                 target_height |-> 1000, center_x |-> 50, center_y |-> 50]) =>
             r = [crop |-> <<500, 1000, 250, 0>>, resize |-> <<>>]

C15_Witness ==
  /\ call.fn = "magick_resize" /\ call.done
  /\ call.args = [width |-> 1000, height |-> 1000, target_width |-> 500,
                  target_height |-> 1000, center_x |-> 50, center_y |-> 50]
  /\ call.ret.crop = <<500, 1000, 250, 0>>
  /\ call.ret.resize = <<>>

\* C20 -- The crop stays inside the source: whenever magick_resize emits a
\* crop WxH+X+Y, 0 <= X, 0 <= Y, X + W <= width, Y + H <= height.
C20_CropInsideSource ==
  (call.fn = "magick_resize" /\ call.done /\ call.ret.crop # <<>>) =>
    LET c == call.ret.crop
    IN  /\ 0 <= c[3] /\ 0 <= c[4]
        /\ c[3] + c[1] <= call.args.width
        /\ c[4] + c[2] <= call.args.height
        /\ c[1] <= call.args.width /\ c[2] <= call.args.height

C20_Witness ==
  /\ call.fn = "magick_resize" /\ call.done /\ call.ret.crop # <<>>
  /\ call.args.center_y = 100
  /\ call.ret.crop[4] > 0
  /\ call.ret.crop[4] + call.ret.crop[2] = call.args.height

====
